---- MODULE Spec2Model ----
(***************************************************************************)
(* Model of the filter-expression engine of broker/helpers.py:             *)
(* flatten_dict, classify_filter, inventory_filter and results_filter.     *)
(*                                                                         *)
(* Python strings are sequences of one-character strings.  A Python value  *)
(* is a record [t, s, items]: t = "s" a string scalar with characters s,   *)
(* t = "d" a dict whose items are its (key, value) pairs in insertion      *)
(* order, t = "l" a list whose items carry the elements (key unused).      *)
(* A call that raises is recorded by the name of the exception in exc.     *)
(***************************************************************************)
EXTENDS Integers, Sequences, FiniteSets, TLC

VARIABLES
    pc,            \* "ready", or the name of the function that was called
    raw_filter,    \* the filter string the caller holds
    inventory,     \* the caller's list of host records
    results,       \* the caller's list of result values
    ret_classify,  \* what classify_filter returned or raised
    ret_flatten,   \* what flatten_dict returned or raised, and its arguments
    ret_filter     \* what inventory_filter / results_filter returned or raised

vars == <<pc, raw_filter, inventory, results, ret_classify, ret_flatten, ret_filter>>

-----------------------------------------------------------------------------
(* Python str primitives *)

\* needle in haystack (str.__contains__)
StrIn(needle, haystack) ==
    \E i \in 1..(Len(haystack) + 1 - Len(needle)) :
        SubSeq(haystack, i, i + Len(needle) - 1) = needle

\* haystack.startswith(needle)
StartsWith(haystack, needle) ==
    /\ Len(needle) <= Len(haystack)
    /\ SubSeq(haystack, 1, Len(needle)) = needle

\* haystack.endswith(needle)
EndsWith(haystack, needle) ==
    /\ Len(needle) <= Len(haystack)
    /\ SubSeq(haystack, Len(haystack) - Len(needle) + 1, Len(haystack)) = needle

\* str.find, 1-based; 0 when sep does not occur (sep is never empty here)
StrFind(s, sep) ==
    IF StrIn(sep, s)
    THEN CHOOSE i \in 1..(Len(s) + 1 - Len(sep)) :
            /\ SubSeq(s, i, i + Len(sep) - 1) = sep
            /\ \A j \in 1..(i - 1) : SubSeq(s, j, j + Len(sep) - 1) # sep
    ELSE 0

\* str.split(sep): every non-overlapping occurrence, left to right, is a cut
RECURSIVE StrSplit(_, _)
StrSplit(s, sep) ==
    LET i == StrFind(s, sep)
    IN  IF i = 0
        THEN <<s>>
        ELSE <<SubSeq(s, 1, i - 1)>> \o StrSplit(SubSeq(s, i + Len(sep), Len(s)), sep)

-----------------------------------------------------------------------------
(* classify_filter *)

\* the keys of the tests dict, in insertion order
TestOrder ==
    << <<"!", "<">>, <<"<">>, <<"!", "=">>, <<"=">>,
       <<"!", "{">>, <<"{">>, <<"!", "}">>, <<"}">> >>

\* the value classify_filter returns for a clause without operator token
None == [none |-> TRUE, haystack |-> <<>>, needle |-> <<>>, cond |-> <<>>]

FilterTest(k, v, c) == [none |-> FALSE, haystack |-> k, needle |-> v, cond |-> c]

\* a loop that does not stop at its first match: the last token, in table
\* order, found in the clause
LastCond(filter_string) ==
    IF \E n \in 1..Len(TestOrder) : StrIn(TestOrder[n], filter_string)
    THEN CHOOSE n \in 1..Len(TestOrder) :
            /\ StrIn(TestOrder[n], filter_string)
            /\ \A m \in (n + 1)..Len(TestOrder) : ~StrIn(TestOrder[m], filter_string)
    ELSE 0

\* the loop over tests.items(): the first token, in table order, found in the
\* clause; 0 when the loop ends without a match
FirstCond(filter_string) ==
    IF \E n \in 1..Len(TestOrder) : StrIn(TestOrder[n], filter_string)
    THEN CHOOSE n \in 1..Len(TestOrder) :
            /\ StrIn(TestOrder[n], filter_string)
            /\ \A m \in 1..(n - 1) : ~StrIn(TestOrder[m], filter_string)
    ELSE 0

\* k, v = filter_string.split(cond): unpacking needs exactly two parts
SplitParts(filter_string, cond) == StrSplit(filter_string, cond)

\* a comma-free clause: FilterTest, None, or ValueError from the unpacking
ClassifyClause(filter_string) ==
    LET n == FirstCond(filter_string)
    IN  IF n = 0
        THEN [exc |-> "", test |-> None]
        ELSE LET parts == SplitParts(filter_string, TestOrder[n])
             IN  IF Len(parts) = 2
                 THEN [exc |-> "", test |-> FilterTest(parts[1], parts[2], TestOrder[n])]
                 ELSE [exc |-> "ValueError", test |-> None]

\* classify_filter: islist tells a list result from a single FilterTest/None
classify_filter(filter_string) ==
    IF StrIn(<<",">>, filter_string)
    THEN LET clauses == StrSplit(filter_string, <<",">>)
             each    == [i \in 1..Len(clauses) |-> ClassifyClause(clauses[i])]
         IN  IF \E i \in 1..Len(each) : each[i].exc # ""
             THEN [exc |-> "ValueError", islist |-> TRUE, tests |-> <<>>]
             ELSE [exc |-> "", islist |-> TRUE,
                   tests |-> [i \in 1..Len(each) |-> each[i].test]]
    ELSE LET one == ClassifyClause(filter_string)
         IN  IF one.exc # ""
             THEN [exc |-> one.exc, islist |-> FALSE, tests |-> <<>>]
             ELSE [exc |-> "", islist |-> FALSE, tests |-> <<one.test>>]

-----------------------------------------------------------------------------
(* Python values and their string form *)

Str(chars)  == [t |-> "s", s |-> chars, items |-> <<>>]
Dict(pairs) == [t |-> "d", s |-> <<>>, items |-> pairs]
List(elems) == [t |-> "l", s |-> <<>>,
                items |-> [i \in 1..Len(elems) |-> [k |-> <<>>, v |-> elems[i]]]]

SQ == "'"
DQ == "\""
BS == "\\"

\* repr of a str: double quotes when it holds ' and no ", single quotes
\* otherwise; the quote in use and the backslash are escaped
RECURSIVE ReprChars(_, _)
ReprChars(chars, quote) ==
    IF chars = <<>>
    THEN <<>>
    ELSE (IF Head(chars) = BS \/ Head(chars) = quote
          THEN <<BS, Head(chars)>>
          ELSE <<Head(chars)>>) \o ReprChars(Tail(chars), quote)

ReprStr(chars) ==
    LET hasSQ == \E i \in 1..Len(chars) : chars[i] = SQ
        hasDQ == \E i \in 1..Len(chars) : chars[i] = DQ
        quote == IF hasSQ /\ ~hasDQ THEN DQ ELSE SQ
    IN  <<quote>> \o ReprChars(chars, quote) \o <<quote>>

\* repr of a value: 'text', [e1, e2], {k1: v1, k2: v2}
RECURSIVE Repr(_)
RECURSIVE ReprItems(_, _, _)
ReprItems(items, i, isdict) ==
    IF i > Len(items)
    THEN <<>>
    ELSE (IF i > 1 THEN <<",", " ">> ELSE <<>>)
         \o (IF isdict THEN ReprStr(items[i].k) \o <<":", " ">> ELSE <<>>)
         \o Repr(items[i].v)
         \o ReprItems(items, i + 1, isdict)

Repr(value) ==
    IF value.t = "s" THEN ReprStr(value.s)
    ELSE IF value.t = "l" THEN <<"[">> \o ReprItems(value.items, 1, FALSE) \o <<"]">>
    ELSE <<"{">> \o ReprItems(value.items, 1, TRUE) \o <<"}">>

\* what str.format substitutes for a value: the text itself for a str,
\* the repr for a list or a dict
StrOf(value) == IF value.t = "s" THEN value.s ELSE Repr(value)

-----------------------------------------------------------------------------
(* the test templates and their evaluation by eval() *)

KwIn       == <<" ", "i", "n", " ">>
KwNotIn    == <<" ", "n", "o", "t", " ", "i", "n", " ">>
KwNe       == <<" ", "!", "=", " ">>
KwEq       == <<" ", "=", "=", " ">>
KwNot      == <<"n", "o", "t", " ">>
KwStarts   == <<".", "s", "t", "a", "r", "t", "s", "w", "i", "t", "h", "(">>
KwEnds     == <<".", "e", "n", "d", "s", "w", "i", "t", "h", "(">>
KwClose    == <<")">>

\* the values of the tests dict; "{needle}" and "{haystack}" are the
\* replacement fields of the template
tests(cond) ==
    CASE cond = <<"!", "<">> -> <<SQ, "{needle}", SQ>> \o KwNotIn \o <<SQ, "{haystack}", SQ>>
      [] cond = <<"<">>      -> <<SQ, "{needle}", SQ>> \o KwIn \o <<SQ, "{haystack}", SQ>>
      [] cond = <<"!", "=">> -> <<SQ, "{haystack}", SQ>> \o KwNe \o <<SQ, "{needle}", SQ>>
      [] cond = <<"=">>      -> <<SQ, "{haystack}", SQ>> \o KwEq \o <<SQ, "{needle}", SQ>>
      [] cond = <<"!", "{">> -> KwNot \o <<SQ, "{haystack}", SQ>> \o KwStarts
                                   \o <<SQ, "{needle}", SQ>> \o KwClose
      [] cond = <<"{">>      -> <<SQ, "{haystack}", SQ>> \o KwStarts
                                   \o <<SQ, "{needle}", SQ>> \o KwClose
      [] cond = <<"!", "}">> -> KwNot \o <<SQ, "{haystack}", SQ>> \o KwEnds
                                   \o <<SQ, "{needle}", SQ>> \o KwClose
      [] cond = <<"}">>      -> <<SQ, "{haystack}", SQ>> \o KwEnds
                                   \o <<SQ, "{needle}", SQ>> \o KwClose

\* str.format(haystack=..., needle=...): the fields are replaced by the text
RECURSIVE Format(_, _, _)
Format(template, haystack, needle) ==
    IF template = <<>>
    THEN <<>>
    ELSE (CASE Head(template) = "{needle}"   -> needle
            [] Head(template) = "{haystack}" -> haystack
            [] OTHER                         -> <<Head(template)>>)
         \o Format(Tail(template), haystack, needle)

StartsAt(e, i, t) == i + Len(t) - 1 <= Len(e) /\ SubSeq(e, i, i + Len(t) - 1) = t

\* the body of a string literal from position j up to its closing delimiter;
\* a backslash takes the next character with it (\' \" \\ give the character,
\* any other pair stays as written)
RECURSIVE ScanString(_, _, _, _)
ScanString(e, j, delim, val) ==
    IF j > Len(e)
    THEN [ok |-> FALSE, val |-> val, next |-> j]
    ELSE IF StartsAt(e, j, delim)
    THEN [ok |-> TRUE, val |-> val, next |-> j + Len(delim)]
    ELSE IF e[j] = BS
    THEN IF j + 1 > Len(e)
         THEN [ok |-> FALSE, val |-> val, next |-> j]
         ELSE ScanString(e, j + 2, delim,
                         val \o (IF e[j + 1] \in {SQ, DQ, BS}
                                 THEN <<e[j + 1]>>
                                 ELSE <<BS, e[j + 1]>>))
    ELSE ScanString(e, j + 1, delim, Append(val, e[j]))

\* adjacent string literals are one string; adjacent code characters one run
AddToken(toks, kind, text) ==
    IF toks # <<>> /\ toks[Len(toks)].kind = kind
    THEN [toks EXCEPT ![Len(toks)].text = @ \o text]
    ELSE Append(toks, [kind |-> kind, text |-> text])

\* Python's tokenizer on the expression: string literals ("S"), opened by a
\* quote or a tripled quote, and the code between them ("C")
RECURSIVE Tokenize(_, _, _)

Literal(e, toks, lit) ==
    IF lit.ok
    THEN Tokenize(e, lit.next, AddToken(toks, "S", lit.val))
    ELSE [ok |-> FALSE, toks |-> toks]

Delimiter(e, i) ==
    IF StartsAt(e, i, <<e[i], e[i], e[i]>>) THEN <<e[i], e[i], e[i]>> ELSE <<e[i]>>

Opened(e, i, toks, delim) == Literal(e, toks, ScanString(e, i + Len(delim), delim, <<>>))

Tokenize(e, i, toks) ==
    IF i > Len(e)
    THEN [ok |-> TRUE, toks |-> toks]
    ELSE IF e[i] \in {SQ, DQ}
    THEN Opened(e, i, toks, Delimiter(e, i))
    ELSE Tokenize(e, i + 1, AddToken(toks, "C", <<e[i]>>))

Returned(b) == [exc |-> "", val |-> b]
SyntaxError == [exc |-> "SyntaxError", val |-> FALSE]

\* eval(expression): val is the truth value of what the expression yields.
\* The expressions the templates can format into are a comparison of two
\* strings, a startswith/endswith call (negated or not), or, when the
\* operator text ends up inside a literal, a single string; anything else
\* does not parse.
Parse(lexed, t, kinds) ==
    IF ~lexed.ok THEN SyntaxError
    ELSE IF kinds = <<"S">> THEN Returned(t[1].text # <<>>)
    ELSE IF kinds = <<"S", "C", "S">> /\ t[2].text = KwIn
         THEN Returned(StrIn(t[1].text, t[3].text))
    ELSE IF kinds = <<"S", "C", "S">> /\ t[2].text = KwNotIn
         THEN Returned(~StrIn(t[1].text, t[3].text))
    ELSE IF kinds = <<"S", "C", "S">> /\ t[2].text = KwNe
         THEN Returned(t[1].text # t[3].text)
    ELSE IF kinds = <<"S", "C", "S">> /\ t[2].text = KwEq
         THEN Returned(t[1].text = t[3].text)
    ELSE IF kinds = <<"S", "C", "S", "C">> /\ t[2].text = KwStarts /\ t[4].text = KwClose
         THEN Returned(StartsWith(t[1].text, t[3].text))
    ELSE IF kinds = <<"S", "C", "S", "C">> /\ t[2].text = KwEnds /\ t[4].text = KwClose
         THEN Returned(EndsWith(t[1].text, t[3].text))
    ELSE IF kinds = <<"C", "S", "C", "S", "C">> /\ t[1].text = KwNot
            /\ t[3].text = KwStarts /\ t[5].text = KwClose
         THEN Returned(~StartsWith(t[2].text, t[4].text))
    ELSE IF kinds = <<"C", "S", "C", "S", "C">> /\ t[1].text = KwNot
            /\ t[3].text = KwEnds /\ t[5].text = KwClose
         THEN Returned(~EndsWith(t[2].text, t[4].text))
    ELSE SyntaxError

Kinds(t) == [i \in 1..Len(t) |-> t[i].kind]

Parsed(lexed) == Parse(lexed, lexed.toks, Kinds(lexed.toks))

Eval(e) == Parsed(Tokenize(e, 1, <<>>))

\* eval(rf.test.format(haystack=value, needle=rf.needle))
EvalTest(rf, value) == Eval(Format(tests(rf.cond), StrOf(value), rf.needle))

-----------------------------------------------------------------------------
(* flatten_dict *)

\* dict(flattened): a key seen again keeps its place and takes the new value
RECURSIVE DictOf(_, _)
DictOf(pairs, acc) ==
    IF pairs = <<>>
    THEN acc
    ELSE LET p == Head(pairs)
         IN  IF \E n \in 1..Len(acc) : acc[n].k = p.k
             THEN DictOf(Tail(pairs),
                         [n \in 1..Len(acc) |-> IF acc[n].k = p.k THEN p ELSE acc[n]])
             ELSE DictOf(Tail(pairs), Append(acc, p))

HasKey(d, key) == \E n \in 1..Len(d) : d[n].k = key
Lookup(d, key) == d[CHOOSE n \in 1..Len(d) : d[n].k = key].v

\* new_key = f"{parent_key}{separator}{key}" if parent_key else key
NewKey(parent_key, separator, key) ==
    IF parent_key # <<>> THEN parent_key \o separator \o key ELSE key

\* del value[index] for each index of to_remove in turn, in the order the
\* indices were collected; an index past the end raises IndexError
\* (indices are 0-based in the source, 1-based here)
RECURSIVE DelLoop(_, _)
DelLoop(value, to_remove) ==
    IF to_remove = <<>>
    THEN [exc |-> "", value |-> value]
    ELSE LET index == Head(to_remove)
         IN  IF index > Len(value)
             THEN [exc |-> "IndexError", value |-> value]
             ELSE DelLoop(SubSeq(value, 1, index - 1) \o SubSeq(value, index + 1, Len(value)),
                          Tail(to_remove))

\* without the copy the deletions are made in the caller's list
CallersListShared(original, working) == working

\* the list object the caller holds, once the deletions are done: line 73
\* rebinds value to a copy, so the deletions never reach the caller's list
CallersList(original, working) == original

RECURSIVE flatten_dict(_, _, _)
RECURSIVE FlattenItems(_, _, _, _, _)
RECURSIVE FlattenElems(_, _, _, _, _, _)

\* line 76-77: sub is what flatten_dict(val, new_key, separator) gave for the
\* dict element at index; its pairs extend flattened, its index is noted
ElemFlattened(elems, index, new_key, separator, flattened, to_remove, sub) ==
    IF sub.exc # ""
    THEN [exc |-> sub.exc, flattened |-> flattened,
          elems |-> [elems EXCEPT ![index].v = sub.arg], to_remove |-> to_remove]
    ELSE FlattenElems([elems EXCEPT ![index].v = sub.arg], index + 1, new_key, separator,
                      flattened \o sub.value, Append(to_remove, index))

\* for index, val in enumerate(value): elems is the list as it stands (its
\* dict elements are the very objects the recursive calls are given)
FlattenElems(elems, index, new_key, separator, flattened, to_remove) ==
    IF index > Len(elems)
    THEN [exc |-> "", flattened |-> flattened, elems |-> elems, to_remove |-> to_remove]
    ELSE IF elems[index].v.t = "d"
    THEN ElemFlattened(elems, index, new_key, separator, flattened, to_remove,
                       flatten_dict(elems[index].v, new_key, separator))
    ELSE FlattenElems(elems, index + 1, new_key, separator, flattened, to_remove)

\* line 70: sub is what flatten_dict(value, new_key, separator) gave
ItemDict(items, i, parent_key, separator, flattened, sub) ==
    IF sub.exc # ""
    THEN [exc |-> sub.exc, flattened |-> flattened,
          items |-> [items EXCEPT ![i].v = sub.arg]]
    ELSE FlattenItems([items EXCEPT ![i].v = sub.arg], i + 1, parent_key, separator,
                      flattened \o sub.value)

\* lines 78-80: del is what the deletion loop left of the working list; the
\* shortened list is stored under new_key
ItemListDeleted(items, i, parent_key, separator, loop, del) ==
    IF del.exc # ""
    THEN [exc |-> del.exc, flattened |-> loop.flattened,
          items |-> [items EXCEPT ![i].v.items = CallersList(loop.elems, del.value)]]
    ELSE FlattenItems([items EXCEPT ![i].v.items = CallersList(loop.elems, del.value)],
                      i + 1, parent_key, separator,
                      Append(loop.flattened,
                             [k |-> NewKey(parent_key, separator, items[i].k),
                              v |-> [items[i].v EXCEPT !.items = del.value]]))

\* lines 72-77: loop is the outcome of the loop over the list's elements
ItemList(items, i, parent_key, separator, flattened, loop) ==
    IF loop.exc # ""
    THEN [exc |-> loop.exc, flattened |-> flattened,
          items |-> [items EXCEPT ![i].v.items = loop.elems]]
    ELSE ItemListDeleted(items, i, parent_key, separator, loop,
                         DelLoop(loop.elems, loop.to_remove))

\* for key, value in nested_dict.items(): items is the dict as it stands,
\* flattened the list of (key, value) pairs collected so far
FlattenItems(items, i, parent_key, separator, flattened) ==
    IF i > Len(items)
    THEN [exc |-> "", flattened |-> flattened, items |-> items]
    ELSE IF items[i].v.t = "d"
    THEN ItemDict(items, i, parent_key, separator, flattened,
                  flatten_dict(items[i].v, NewKey(parent_key, separator, items[i].k),
                               separator))
    ELSE IF items[i].v.t = "l"
    THEN ItemList(items, i, parent_key, separator, flattened,
                  FlattenElems(items[i].v.items, 1,
                               NewKey(parent_key, separator, items[i].k),
                               separator, flattened, <<>>))
    ELSE FlattenItems(items, i + 1, parent_key, separator,
                      Append(flattened,
                             [k |-> NewKey(parent_key, separator, items[i].k),
                              v |-> items[i].v]))

\* return dict(flattened): value is the returned dict, arg the content of
\* nested_dict when the call ends
Flattened(nested_dict, r) ==
    [exc   |-> r.exc,
     value |-> IF r.exc = "" THEN DictOf(r.flattened, <<>>) ELSE <<>>,
     arg   |-> [nested_dict EXCEPT !.items = r.items]]

flatten_dict(nested_dict, parent_key, separator) ==
    Flattened(nested_dict, FlattenItems(nested_dict.items, 1, parent_key, separator, <<>>))

-----------------------------------------------------------------------------
(* inventory_filter and results_filter *)

\* if not isinstance(resolved_filter, list): resolved_filter = [resolved_filter]
AsList(resolved) == IF resolved.islist THEN resolved.tests ELSE <<resolved.tests[1]>>

\* all(eval_list), on the truth values
All(eval_list) == \A n \in 1..Len(eval_list) : eval_list[n]

\* if eval_list and all(eval_list)
Passes(eval_list) == eval_list # <<>> /\ All(eval_list)

\* a mistaken matching.insert(0, item)
InsertMatch(matching, item) == <<item>> \o matching

\* matching.append(item)
AppendMatch(matching, item) == Append(matching, item)

RECURSIVE InventoryEvalList(_, _, _, _)

\* r is what the eval of resolved_filter[n] gave
InventoryEvaluated(resolved_filter, n, flattened_host, eval_list, r) ==
    IF r.exc # ""
    THEN [exc |-> r.exc, eval_list |-> eval_list]
    ELSE InventoryEvalList(resolved_filter, n + 1, flattened_host, Append(eval_list, r.val))

\* the comprehension of inventory_filter: for each rf in turn, the test
\* "rf.haystack in flattened_host" (AttributeError on None), then the eval
InventoryEvalList(resolved_filter, n, flattened_host, eval_list) ==
    IF n > Len(resolved_filter)
    THEN [exc |-> "", eval_list |-> eval_list]
    ELSE IF resolved_filter[n].none
    THEN [exc |-> "AttributeError", eval_list |-> eval_list]
    ELSE IF ~HasKey(flattened_host, resolved_filter[n].haystack)
    THEN InventoryEvalList(resolved_filter, n + 1, flattened_host, eval_list)
    ELSE InventoryEvaluated(resolved_filter, n, flattened_host, eval_list,
                            EvalTest(resolved_filter[n],
                                     Lookup(flattened_host, resolved_filter[n].haystack)))

\* what is appended to matching for a host that passes: the host itself
Matched(host, flattened_host) == host

RECURSIVE InventoryLoop(_, _, _, _)

\* lines 119-120: ev is the outcome of the comprehension for host i
HostEvaluated(hosts, i, resolved_filter, matching, flattened_host, ev) ==
    IF ev.exc # ""
    THEN [exc |-> ev.exc, value |-> <<>>, arg |-> hosts]
    ELSE InventoryLoop(hosts, i + 1, resolved_filter,
                       IF Passes(ev.eval_list)
                       THEN AppendMatch(matching, Matched(hosts[i], Dict(flattened_host)))
                       ELSE matching)

\* lines 113-118: flat is what flatten_dict(host, separator=".") gave
HostFlattened(hosts, i, resolved_filter, matching, flat) ==
    IF flat.exc # ""
    THEN [exc |-> flat.exc, value |-> <<>>, arg |-> [hosts EXCEPT ![i] = flat.arg]]
    ELSE HostEvaluated([hosts EXCEPT ![i] = flat.arg], i, resolved_filter, matching,
                       flat.value,
                       InventoryEvalList(resolved_filter, 1, flat.value, <<>>))

\* for host in inventory
InventoryLoop(hosts, i, resolved_filter, matching) ==
    IF i > Len(hosts)
    THEN [exc |-> "", value |-> matching, arg |-> hosts]
    ELSE HostFlattened(hosts, i, resolved_filter, matching,
                       flatten_dict(hosts[i], <<>>, <<".">>))

InventoryResolved(inventory_, resolved) ==
    IF resolved.exc # ""
    THEN [exc |-> resolved.exc, value |-> <<>>, arg |-> inventory_]
    ELSE InventoryLoop(inventory_, 1, AsList(resolved), <<>>)

\* inventory_filter(inventory, raw_filter): value is the returned list,
\* arg the content of inventory when the call ends
inventory_filter(inventory_, raw_filter_) ==
    InventoryResolved(inventory_, classify_filter(raw_filter_))

RECURSIVE ResultsEvalList(_, _, _, _)

\* r is what the eval of resolved_filter[n] gave
ResultsEvaluated(resolved_filter, n, res, eval_list, r) ==
    IF r.exc # ""
    THEN [exc |-> r.exc, eval_list |-> eval_list]
    ELSE ResultsEvalList(resolved_filter, n + 1, res, Append(eval_list, r.val))

\* the comprehension of results_filter: rf.test of every rf (AttributeError
\* on None), evaluated against the value itself
ResultsEvalList(resolved_filter, n, res, eval_list) ==
    IF n > Len(resolved_filter)
    THEN [exc |-> "", eval_list |-> eval_list]
    ELSE IF resolved_filter[n].none
    THEN [exc |-> "AttributeError", eval_list |-> eval_list]
    ELSE ResultsEvaluated(resolved_filter, n, res, eval_list,
                          EvalTest(resolved_filter[n], res))

RECURSIVE ResultsLoop(_, _, _, _)

\* lines 135-136: ev is the outcome of the comprehension for results[i]
ResultEvaluated(results_, i, resolved_filter, matching, ev) ==
    IF ev.exc # ""
    THEN [exc |-> ev.exc, value |-> <<>>]
    ELSE ResultsLoop(results_, i + 1, resolved_filter,
                     IF Passes(ev.eval_list)
                     THEN AppendMatch(matching, results_[i])
                     ELSE matching)

\* for res in results
ResultsLoop(results_, i, resolved_filter, matching) ==
    IF i > Len(results_)
    THEN [exc |-> "", value |-> matching]
    ELSE ResultEvaluated(results_, i, resolved_filter, matching,
                         ResultsEvalList(resolved_filter, 1, results_[i], <<>>))

ResultsResolved(results_, resolved) ==
    IF resolved.exc # ""
    THEN [exc |-> resolved.exc, value |-> <<>>]
    ELSE ResultsLoop(results_, 1, AsList(resolved), <<>>)

results_filter(results_, raw_filter_) ==
    ResultsResolved(results_, classify_filter(raw_filter_))

-----------------------------------------------------------------------------
(* the inputs the calls are made with *)

MaxFilterLen == 5
MaxDepth     == 2
MaxListLen   == 3
MaxHosts     == 2
MaxResults   == 2

Strings(alphabet, n) == UNION {[1..k -> alphabet] : k \in 0..n}
SeqsUpTo(S, n)       == UNION {[1..k -> S] : k \in 0..n}

Entry(key, value) == [k |-> key, v |-> value]

\* every filter string over the operator characters, the comma and a letter
FilterAlphabet == {"a", ",", "!", "<", "=", "{", "}"}
FilterStrings  == Strings(FilterAlphabet, MaxFilterLen)

\* records for flatten_dict: nested mappings up to MaxDepth below the top
\* level with one or two top-level fields (the empty key included), and
\* lists of up to MaxListLen scalars and records
Separators == {<<".">>, <<"_">>}
Keys       == {<<>>, <<"a">>, <<"b">>}
Leaves     == {Str(<<"1">>), Str(<<"2">>)}

RECURSIVE Nest(_)
Nest(n) ==
    IF n = 0
    THEN Leaves
    ELSE LET below == Nest(n - 1)
         IN  below \cup {Dict(<<Entry(key, v)>>) : key \in Keys, v \in below}

MappingRecords ==
    LET values == Nest(MaxDepth)
    IN  {Dict(<<>>)}
        \cup {Dict(<<Entry(key, v)>>) : key \in Keys, v \in values}
        \cup {Dict(<<Entry(kk[1], v1), Entry(kk[2], v2)>>) :
                 kk \in {p \in Keys \X Keys : p[1] # p[2]},
                 v1 \in values, v2 \in values}

ListElems ==
    Leaves \cup {Dict(<<Entry(<<"b">>, Str(<<"1">>))>>),
                 Dict(<<Entry(<<"a">>, Str(<<"2">>))>>)}

Lists == {List(elems) : elems \in SeqsUpTo(ListElems, MaxListLen)}

ListRecords ==
    {Dict(<<Entry(key, l)>>) : key \in Keys \ {<<>>}, l \in Lists}
    \cup {Dict(<<Entry(k1, Dict(<<Entry(k2, l)>>))>>) :
             k1 \in {<<"a">>}, k2 \in Keys, l \in Lists}

Records == MappingRecords \cup ListRecords

\* hosts of an inventory: plain, nested and list-bearing records whose
\* values include a quote character
Z   == <<"z">>
ZZ  == <<"z", "z">>
ZQ  == <<"z", "'">>
KA  == <<"a">>
KB  == <<"b">>
KAB == <<"a", ".", "b">>

Hosts ==
    { Dict(<<Entry(KA, Str(Z))>>),
      Dict(<<Entry(KA, Str(ZQ))>>),
      Dict(<<Entry(KB, Str(Z))>>),
      Dict(<<Entry(KA, Str(ZZ)), Entry(KB, Str(Z))>>),
      Dict(<<Entry(KA, Dict(<<Entry(KB, Str(Z))>>))>>),
      Dict(<<Entry(KA, List(<<Str(Z), Dict(<<Entry(KB, Str(Z))>>)>>))>>),
      Dict(<<Entry(KA, List(<<Dict(<<Entry(KB, Str(Z))>>),
                              Dict(<<Entry(KB, Str(ZZ))>>)>>))>>) }

Inventories == SeqsUpTo(Hosts, MaxHosts)

\* result values: strings, with and without a quote, and a list of strings
ResultValues == {Str(<<>>), Str(Z), Str(ZZ), Str(ZQ), List(<<Str(Z)>>)}
ResultLists  == SeqsUpTo(ResultValues, MaxResults)

\* filter strings for the evaluators: a first clause, then at most one more
Clause(key, cond, needle) == key \o cond \o needle

FirstClauses ==
    {Clause(KA, TestOrder[n], needle) : n \in 1..Len(TestOrder), needle \in {Z, <<"'">>}}
    \cup {Clause(KB, <<"=">>, Z), Clause(KAB, <<"=">>, Z), Clause(KAB, <<"!", "<">>, ZZ)}
    \cup {<<>>, KA, Clause(Clause(KA, <<"=">>, Z), <<"=">>, Z)}

MoreClauses == {<<>>, KB, Clause(KB, <<"=">>, Z), Clause(KA, <<"!", "=">>, Z)}

Filters == FirstClauses \cup {c1 \o <<",">> \o c2 : c1 \in FirstClauses, c2 \in MoreClauses}

-----------------------------------------------------------------------------
(* the calls *)

NotClassified == [exc |-> "", islist |-> FALSE, tests |-> <<>>]
NotFlattened  == [exc |-> "", value |-> <<>>, nested_dict |-> Dict(<<>>), separator |-> <<>>]
NotFiltered   == [exc |-> "", value |-> <<>>]

Fresh ==
    /\ pc = "ready"
    /\ ret_classify = NotClassified
    /\ ret_flatten = NotFlattened
    /\ ret_filter = NotFiltered

\* the evaluators' callers: a filter string with an inventory or with results
Init ==
    /\ Fresh
    /\ raw_filter \in Filters
    /\ \/ inventory \in Inventories /\ results = <<>>
       \/ inventory = <<>> /\ results \in ResultLists

\* classify_filter on any filter string
InitClassify ==
    /\ Fresh
    /\ raw_filter \in FilterStrings
    /\ inventory = <<>>
    /\ results = <<>>

\* flatten_dict on any record
InitFlatten ==
    /\ Fresh
    /\ raw_filter = <<>>
    /\ inventory \in {<<r>> : r \in Records}
    /\ results = <<>>

ClassifyFilter ==
    /\ pc = "ready"
    /\ ret_classify' = classify_filter(raw_filter)
    /\ pc' = "classify_filter"
    /\ UNCHANGED <<raw_filter, inventory, results, ret_flatten, ret_filter>>

FlattenDict ==
    /\ pc = "ready"
    /\ \E i \in 1..Len(inventory), sep \in Separators :
          LET r == flatten_dict(inventory[i], <<>>, sep)
          IN  /\ ret_flatten' = [exc |-> r.exc, value |-> r.value,
                                 nested_dict |-> inventory[i], separator |-> sep]
              /\ inventory' = [inventory EXCEPT ![i] = r.arg]
    /\ pc' = "flatten_dict"
    /\ UNCHANGED <<raw_filter, results, ret_classify, ret_filter>>

InventoryFilter ==
    /\ pc = "ready"
    /\ LET r == inventory_filter(inventory, raw_filter)
       IN  /\ ret_filter' = [exc |-> r.exc, value |-> r.value]
           /\ inventory' = r.arg
    /\ pc' = "inventory_filter"
    /\ UNCHANGED <<raw_filter, results, ret_classify, ret_flatten>>

ResultsFilter ==
    /\ pc = "ready"
    /\ ret_filter' = results_filter(results, raw_filter)
    /\ pc' = "results_filter"
    /\ UNCHANGED <<raw_filter, inventory, results, ret_classify, ret_flatten>>

Next == ClassifyFilter \/ FlattenDict \/ InventoryFilter \/ ResultsFilter

Spec == Init /\ [][Next]_vars

NextClassify == ClassifyFilter
SpecClassify == InitClassify /\ [][NextClassify]_vars

NextFlatten == FlattenDict
SpecFlatten == InitFlatten /\ [][NextFlatten]_vars

-----------------------------------------------------------------------------
(* what the specification says of a filter clause, stated independently of  *)
(* the definitions above                                                    *)

\* the operator table of the specification, in its canonical order
OperatorTable ==
    << <<"!", "<">>, <<"<">>, <<"!", "=">>, <<"=">>,
       <<"!", "{">>, <<"{">>, <<"!", "}">>, <<"}">> >>

Occurs(token, clause) ==
    \E i \in 1..Len(clause) : i + Len(token) - 1 <= Len(clause)
                              /\ \A j \in 1..Len(token) : clause[i + j - 1] = token[j]

HasComma(text)    == \E i \in 1..Len(text) : text[i] = ","
HasOperator(text) == \E n \in 1..Len(OperatorTable) : Occurs(OperatorTable[n], text)

\* the first token, in table order, that occurs in the clause
Matched1(clause) ==
    OperatorTable[CHOOSE n \in 1..Len(OperatorTable) :
                     /\ Occurs(OperatorTable[n], clause)
                     /\ \A m \in 1..(n - 1) : ~Occurs(OperatorTable[m], clause)]

\* where the token first occurs in the clause
FirstAt(token, clause) ==
    CHOOSE i \in 1..Len(clause) :
        /\ Occurs(token, SubSeq(clause, i, i + Len(token) - 1))
        /\ \A j \in 1..(i - 1) : ~Occurs(token, SubSeq(clause, j, j + Len(token) - 1))

\* the token occurs again after its first occurrence
OccursTwice(token, clause) ==
    Occurs(token, SubSeq(clause, FirstAt(token, clause) + Len(token), Len(clause)))

\* the eight test kinds, on the string form of the value and the literal needle
Holds(cond, haystack, needle) ==
    CASE cond = <<"!", "<">> -> ~Occurs(needle, haystack) /\ needle # <<>>
      [] cond = <<"<">>      -> Occurs(needle, haystack) \/ needle = <<>>
      [] cond = <<"!", "=">> -> haystack # needle
      [] cond = <<"=">>      -> haystack = needle
      [] cond = <<"!", "{">> -> ~(Len(needle) <= Len(haystack)
                                  /\ \A j \in 1..Len(needle) : haystack[j] = needle[j])
      [] cond = <<"{">>      -> Len(needle) <= Len(haystack)
                                /\ \A j \in 1..Len(needle) : haystack[j] = needle[j]
      [] cond = <<"!", "}">> -> ~(Len(needle) <= Len(haystack)
                                  /\ \A j \in 1..Len(needle) :
                                        haystack[Len(haystack) - Len(needle) + j] = needle[j])
      [] cond = <<"}">>      -> Len(needle) <= Len(haystack)
                                /\ \A j \in 1..Len(needle) :
                                      haystack[Len(haystack) - Len(needle) + j] = needle[j]

Negated == {<<"!", "<">>, <<"!", "=">>, <<"!", "{">>, <<"!", "}">>}

-----------------------------------------------------------------------------
(* C4 *)

\* C4: for a comma-free clause classify_filter takes the first token, in the
\* order of the table !< < != = !{ { !} }, that occurs anywhere in the clause:
\* with no token it returns None; otherwise it returns a predicate of exactly
\* that token's kind, or raises at the split on that token when the token
\* occurs twice; so a clause holding a negated token never yields the kind of
\* the token's one-character suffix.
C4_FirstTokenInTableOrder ==
    (pc = "classify_filter" /\ ~HasComma(raw_filter)) =>
        /\ ~ret_classify.islist
        /\ ~HasOperator(raw_filter) =>
              ret_classify.exc = "" /\ ret_classify.tests = <<None>>
        /\ HasOperator(raw_filter) =>
              /\ ret_classify.exc = "" =>
                    /\ Len(ret_classify.tests) = 1
                    /\ ~ret_classify.tests[1].none
                    /\ ret_classify.tests[1].cond = Matched1(raw_filter)
              /\ ret_classify.exc # "" =>
                    /\ ret_classify.exc = "ValueError"
                    /\ OccursTwice(Matched1(raw_filter), raw_filter)
              /\ \A token \in Negated :
                    Occurs(token, raw_filter) =>
                        \/ ret_classify.exc # ""
                        \/ ret_classify.tests[1].cond # Tail(token)

\* a clause with a field, the token != and a value was classified as not-equals
C4_Witness ==
    /\ pc = "classify_filter"
    /\ raw_filter = <<"a", "!", "=", "a">>
    /\ ret_classify.exc = ""
    /\ ret_classify.tests[1].cond = <<"!", "=">>

-----------------------------------------------------------------------------
(* C5 *)

\* C5: every comma-free clause that holds an operator token, the token
\* occurring once or several times, is classified without raising as one
\* predicate: the haystack is the text before the first occurrence of the
\* matched token, the needle all the text after that occurrence.
C5_SplitAtFirstOccurrence ==
    (pc = "classify_filter" /\ ~HasComma(raw_filter) /\ HasOperator(raw_filter)) =>
        LET token == Matched1(raw_filter)
            at    == FirstAt(token, raw_filter)
        IN  /\ ret_classify.exc = ""
            /\ Len(ret_classify.tests) = 1
            /\ ~ret_classify.tests[1].none
            /\ ret_classify.tests[1].haystack = SubSeq(raw_filter, 1, at - 1)
            /\ ret_classify.tests[1].needle
                  = SubSeq(raw_filter, at + Len(token), Len(raw_filter))

-----------------------------------------------------------------------------
(* C3 *)

IsRecord(value) == value.t = "d"

\* the elements of a list that are not records, in their original order
RECURSIVE NonRecords(_)
NonRecords(elems) ==
    IF elems = <<>>
    THEN <<>>
    ELSE (IF IsRecord(Head(elems).v) THEN <<>> ELSE <<Head(elems)>>)
         \o NonRecords(Tail(elems))

Composite(prefix, sep, key) == IF prefix = <<>> THEN key ELSE prefix \o sep \o key

\* the sequence-valued fields of a record, each with its composite key
RECURSIVE ListFields(_, _, _)
ListFields(record, prefix, sep) ==
    UNION { LET e == record.items[i]
            IN  IF e.v.t = "l"
                THEN {[key |-> Composite(prefix, sep, e.k), list |-> e.v]}
                ELSE IF e.v.t = "d"
                THEN ListFields(e.v, Composite(prefix, sep, e.k), sep)
                ELSE {}
          : i \in 1..Len(record.items) }

\* C3: flatten_dict does not raise, and for every sequence-valued field,
\* however many record elements the sequence has and wherever they stand, the
\* composite key holds exactly the non-record elements in their original
\* order, and every field of a record element is promoted to the key
\* <key><separator><subkey>.
C3_SequenceKeepsNonRecords ==
    pc = "flatten_dict" =>
        \A f \in ListFields(ret_flatten.nested_dict, <<>>, ret_flatten.separator) :
            /\ ret_flatten.exc = ""
            /\ HasKey(ret_flatten.value, f.key)
            /\ Lookup(ret_flatten.value, f.key).t = "l"
            /\ Lookup(ret_flatten.value, f.key).items = NonRecords(f.list.items)
            /\ \A n \in 1..Len(f.list.items) :
                  IsRecord(f.list.items[n].v) =>
                      \A m \in 1..Len(f.list.items[n].v.items) :
                          HasKey(ret_flatten.value,
                                 f.key \o ret_flatten.separator
                                       \o f.list.items[n].v.items[m].k)

-----------------------------------------------------------------------------
(* C8 *)

RECURSIVE MappingOnly(_)
MappingOnly(record) ==
    \A i \in 1..Len(record.items) :
        \/ record.items[i].v.t = "s"
        \/ record.items[i].v.t = "d" /\ MappingOnly(record.items[i].v)

\* the scalar leaves of a record of nested mappings, each with its path
RECURSIVE LeafPaths(_, _)
LeafPaths(record, prefix) ==
    UNION { LET e == record.items[i]
            IN  IF e.v.t = "d"
                THEN LeafPaths(e.v, Append(prefix, e.k))
                ELSE {[path |-> Append(prefix, e.k), v |-> e.v]}
          : i \in 1..Len(record.items) }

RECURSIVE JoinPath(_, _)
JoinPath(path, sep) ==
    IF Len(path) = 1 THEN path[1] ELSE path[1] \o sep \o JoinPath(Tail(path), sep)

DistinctJoinedPaths(leaves, sep) ==
    \A l1 \in leaves : \A l2 \in leaves :
        l1.path # l2.path => JoinPath(l1.path, sep) # JoinPath(l2.path, sep)

\* C8: for a record of nested mappings and scalar leaves whose joined leaf
\* paths are pairwise distinct, flatten_dict returns exactly one entry per
\* leaf, keyed by the leaf's path components joined with the separator and
\* holding the leaf's value.
C8_OneEntryPerLeaf ==
    LET record == ret_flatten.nested_dict
        sep    == ret_flatten.separator
        leaves == LeafPaths(record, <<>>)
    IN  (pc = "flatten_dict" /\ MappingOnly(record) /\ DistinctJoinedPaths(leaves, sep)) =>
            /\ ret_flatten.exc = ""
            /\ Len(ret_flatten.value) = Cardinality(leaves)
            /\ {<<ret_flatten.value[n].k, ret_flatten.value[n].v>> :
                    n \in 1..Len(ret_flatten.value)}
                  = {<<JoinPath(l.path, sep), l.v>> : l \in leaves}

-----------------------------------------------------------------------------
(* the evaluators *)

Called == pc \in {"inventory_filter", "results_filter"}

\* the predicates of the parsed filter
Predicates(filter) ==
    SelectSeq(AsList(classify_filter(filter)), LAMBDA rf : ~rf.none)

Parses(filter) == classify_filter(filter).exc = ""

\* the flattened form of a host, separator "."
FlatOf(host) == flatten_dict(host, <<>>, <<".">>).value

Clauses(filter) == StrSplit(filter, <<",">>)

RECURSIVE JoinClauses(_)
JoinClauses(clauses) ==
    IF clauses = <<>> THEN <<>>
    ELSE IF Len(clauses) = 1 THEN clauses[1]
    ELSE clauses[1] \o <<",">> \o JoinClauses(Tail(clauses))

\* the outcome of the evaluator that was called, had it been given this filter
OutcomeWith(filter) ==
    IF pc = "inventory_filter"
    THEN [exc   |-> inventory_filter(inventory, filter).exc,
          value |-> inventory_filter(inventory, filter).value]
    ELSE results_filter(results, filter)

-----------------------------------------------------------------------------
(* C1 *)

\* a record is retained: some predicate's key is in the flattened record and
\* every predicate whose key is there holds of the value under it
RetainedHost(host) ==
    LET preds == Predicates(raw_filter)
        flat  == FlatOf(host)
    IN  /\ \E n \in 1..Len(preds) : HasKey(flat, preds[n].haystack)
        /\ \A n \in 1..Len(preds) :
              HasKey(flat, preds[n].haystack) =>
                  Holds(preds[n].cond, StrOf(Lookup(flat, preds[n].haystack)),
                        preds[n].needle)

\* C1: what inventory_filter returns is exactly the records for which some
\* predicate of the parsed filter has its key in the flattened record and
\* every predicate whose key is there evaluates true; predicates with an
\* absent key are skipped, a record with none of the keys is dropped.
C1_InventoryRetention ==
    (pc = "inventory_filter" /\ ret_filter.exc = "") =>
        ret_filter.value = SelectSeq(inventory, RetainedHost)

-----------------------------------------------------------------------------
(* C2 *)

RetainedValue(res) ==
    LET preds == Predicates(raw_filter)
    IN  /\ preds # <<>>
        /\ \A n \in 1..Len(preds) : Holds(preds[n].cond, StrOf(res), preds[n].needle)

\* the clause with another text for its key
Rekeyed(clause) ==
    IF HasOperator(clause)
    THEN <<"y">> \o SubSeq(clause, FirstAt(Matched1(clause), clause), Len(clause))
    ELSE clause

RekeyedFilter(filter) ==
    JoinClauses([n \in 1..Len(Clauses(filter)) |-> Rekeyed(Clauses(filter)[n])])

\* C2: what results_filter returns is exactly the values of which every
\* predicate of the parsed filter holds, the filter having at least one
\* predicate; the key text of the clauses is ignored, so the filter with
\* other keys gives the same result.
C2_ResultsRetention ==
    (pc = "results_filter" /\ ret_filter.exc = "") =>
        /\ ret_filter.value = SelectSeq(results, RetainedValue)
        /\ results_filter(results, RekeyedFilter(raw_filter)) = ret_filter

-----------------------------------------------------------------------------
(* C6 *)

BareClause(clause) == ~HasOperator(clause)

\* the filter without its operator-free clauses
WithoutBareClauses(filter) ==
    JoinClauses(SelectSeq(Clauses(filter), HasOperator))

\* C6: a clause without operator token contributes no predicate and raises
\* nothing: when no clause of the filter has an operator the evaluators
\* return the empty sequence for every input; when only some clauses lack
\* one, the outcome is that of the filter made of the remaining clauses.
C6_BareClausesIgnored ==
    (Called /\ \E n \in 1..Len(Clauses(raw_filter)) : BareClause(Clauses(raw_filter)[n])) =>
        IF \A n \in 1..Len(Clauses(raw_filter)) : BareClause(Clauses(raw_filter)[n])
        THEN ret_filter = [exc |-> "", value |-> <<>>]
        ELSE ret_filter = OutcomeWith(WithoutBareClauses(raw_filter))

-----------------------------------------------------------------------------
(* C7 *)

ScalarOrScalars(value) ==
    \/ value.t = "s"
    \/ value.t = "l" /\ \A n \in 1..Len(value.items) : value.items[n].v.t = "s"

\* the values the predicate rf is evaluated against by the call that was made
Haystacks(rf) ==
    IF pc = "results_filter"
    THEN {results[i] : i \in 1..Len(results)}
    ELSE {Lookup(FlatOf(inventory[i]), rf.haystack) :
             i \in {j \in 1..Len(inventory) : HasKey(FlatOf(inventory[j]), rf.haystack)}}

\* C7: evaluating a predicate against a scalar or a sequence of scalars, a
\* quote or backslash in its string form included, does not raise and gives
\* exactly the substring / prefix / suffix / equality test, or its negation,
\* of the string form of the value and the literal needle.
C7_LiteralEvaluation ==
    (Called /\ Parses(raw_filter)) =>
        \A n \in 1..Len(Predicates(raw_filter)) :
            LET rf == Predicates(raw_filter)[n]
            IN  \A value \in {v \in Haystacks(rf) : ScalarOrScalars(v)} :
                    EvalTest(rf, value) = Returned(Holds(rf.cond, StrOf(value), rf.needle))

-----------------------------------------------------------------------------
(* C9 *)

RECURSIVE IsSubsequence(_, _)
IsSubsequence(a, b) ==
    \/ a = <<>>
    \/ /\ b # <<>>
       /\ IF Head(a) = Head(b)
          THEN IsSubsequence(Tail(a), Tail(b))
          ELSE IsSubsequence(a, Tail(b))

\* filtering xs, then filtering ys: the first call that raises ends it
Then(first, second) ==
    IF first.exc # "" THEN first
    ELSE IF second.exc # "" THEN second
    ELSE [exc |-> "", value |-> first.value \o second.value]

InventoryOutcome(hosts) ==
    [exc   |-> inventory_filter(hosts, raw_filter).exc,
     value |-> inventory_filter(hosts, raw_filter).value]

\* C9: what an evaluator returns is a subsequence of its input, in the
\* input's order, and filtering xs \o ys is filtering xs, then filtering ys
\* (an exception raised for an item ends either in the same way).
C9_OrderPreservingSubsequence ==
    /\ pc = "inventory_filter" =>
          /\ ret_filter.exc = "" => IsSubsequence(ret_filter.value, inventory)
          /\ \A n \in 0..Len(inventory) :
                ret_filter = Then(InventoryOutcome(SubSeq(inventory, 1, n)),
                                  InventoryOutcome(SubSeq(inventory, n + 1, Len(inventory))))
    /\ pc = "results_filter" =>
          /\ ret_filter.exc = "" => IsSubsequence(ret_filter.value, results)
          /\ \A n \in 0..Len(results) :
                ret_filter = Then(results_filter(SubSeq(results, 1, n), raw_filter),
                                  results_filter(SubSeq(results, n + 1, Len(results)),
                                                 raw_filter))

\* of two different hosts both were retained, in the order of the inventory
C9_Witness ==
    /\ pc = "inventory_filter"
    /\ ret_filter.exc = ""
    /\ Len(inventory) = 2
    /\ inventory[1] # inventory[2]
    /\ ret_filter.value = inventory

-----------------------------------------------------------------------------
(* C10 *)

HasRecordInList(record) ==
    \E i \in 1..Len(record.items) :
        /\ record.items[i].v.t = "l"
        /\ \E n \in 1..Len(record.items[i].v.items) : IsRecord(record.items[i].v.items[n].v)

\* C10: a call of flatten_dict or inventory_filter leaves every record of
\* the inventory, its nested mappings and sequences included, with the
\* content it had, and what inventory_filter returns are records of the
\* inventory as they were given, not their flattened forms.
C10_InputsUnchanged ==
    [][ /\ inventory' = inventory
        /\ pc' = "inventory_filter" =>
              \A n \in 1..Len(ret_filter'.value) :
                  \E i \in 1..Len(inventory) : ret_filter'.value[n] = inventory[i]
      ]_vars

\* inventory_filter returned a host one of whose sequences holds a record
C10_Witness ==
    /\ pc = "inventory_filter"
    /\ ret_filter.exc = ""
    /\ \E n \in 1..Len(ret_filter.value) : HasRecordInList(ret_filter.value[n])

====
